---- MODULE Spec2Model ----
(***************************************************************************)
(* Verification model of the Spidey email assistant                        *)
(* (vinoth-vk-16/SuperSpidey, backend/Spidey).                             *)
(*                                                                         *)
(* Text is modelled at character level: a Python str is a TLA+ string,     *)
(* read one character at a time with SubSeq, so that keyword tests,        *)
(* lower-casing, the address regular expression, strip() and the chat      *)
(* history parser are computed the way the code computes them.             *)
(***************************************************************************)
EXTENDS Integers, Sequences, FiniteSets, TLC

(***************************************************************************)
(* Python str primitives                                                   *)
(***************************************************************************)

\* s[i-1] of Python, as a one-character string (1-based here).
Ch(s, i) == SubSeq(s, i, i)

UpperLetters == "ABCDEFGHIJKLMNOPQRSTUVWXYZ"
LowerLetters == "abcdefghijklmnopqrstuvwxyz"
DigitChars == "0123456789"

\* The characters of a string, as a set.
CharSet(cs) == {Ch(cs, i) : i \in 1..Len(cs)}

UpperSet == CharSet(UpperLetters)
LowerSet == CharSet(LowerLetters)
DigitSet == CharSet(DigitChars)

IsUpper(c) == c \in UpperSet
IsLower(c) == c \in LowerSet
IsLetter(c) == IsUpper(c) \/ IsLower(c)
IsDigit(c) == c \in DigitSet

ToLowerMap == [c \in UpperSet |-> Ch(LowerLetters, CHOOSE i \in 1..26 : Ch(UpperLetters, i) = c)]
ToUpperMap == [c \in LowerSet |-> Ch(UpperLetters, CHOOSE i \in 1..26 : Ch(LowerLetters, i) = c)]

\* str.lower() on one character.
LowerCh(c) == IF IsUpper(c) THEN ToLowerMap[c] ELSE c

\* str.upper() on one character.
UpperCh(c) == IF IsLower(c) THEN ToUpperMap[c] ELSE c

RECURSIVE LowerFrom(_, _)
LowerFrom(s, i) ==
    IF i > Len(s) THEN "" ELSE LowerCh(Ch(s, i)) \o LowerFrom(s, i + 1)

\* str.lower()
Lower(s) == LowerFrom(s, 1)

\* kw in s  (substring test)
Contains(s, kw) ==
    \E i \in 1..(Len(s) - Len(kw) + 1) : SubSeq(s, i, i + Len(kw) - 1) = kw

\* s.startswith(p)
StartsWith(s, p) == Len(s) >= Len(p) /\ SubSeq(s, 1, Len(p)) = p

\* s[n:]
DropFirst(s, n) == SubSeq(s, n + 1, Len(s))

\* Characters str.strip() removes.
IsSpace(c) == c \in {" ", "\n", "\t"}

RECURSIVE LStrip(_)
LStrip(s) == IF Len(s) > 0 /\ IsSpace(Ch(s, 1)) THEN LStrip(Tail(s)) ELSE s

RECURSIVE RStrip(_)
RStrip(s) ==
    IF Len(s) > 0 /\ IsSpace(Ch(s, Len(s)))
    THEN RStrip(SubSeq(s, 1, Len(s) - 1))
    ELSE s

\* str.strip()
Strip(s) == RStrip(LStrip(s))

\* Python truthiness of a str: `not s` is s = "".
Truthy(s) == s # ""

Max(S) == CHOOSE m \in S : \A n \in S : n <= m

(***************************************************************************)
(* The address regular expression                                          *)
(*   \b[A-Za-z0-9._%+-]+@[A-Za-z0-9.-]+\.[A-Z|a-z]{2,}\b                   *)
(* and re.findall over it: leftmost match, greedy with backtracking,       *)
(* the scan resuming at the end of each match.                             *)
(***************************************************************************)

\* \w
IsWordCh(c) == IsLetter(c) \/ IsDigit(c) \/ c = "_"

\* [A-Za-z0-9._%+-]
IsLocalCh(c) == IsLetter(c) \/ IsDigit(c) \/ c \in {".", "_", "%", "+", "-"}

\* [A-Za-z0-9.-]
IsDomainCh(c) == IsLetter(c) \/ IsDigit(c) \/ c \in {".", "-"}

\* [A-Z|a-z] in the agent (the bar is a member of the class as written there),
\* [a-zA-Z] in helpers.py: bar says which.
IsTldCh(c, bar) == IsLetter(c) \/ (bar /\ c = "|")

\* \b before position p (1..Len+1): exactly one neighbour is a word character.
WordBoundary(s, p) ==
    (p > 1 /\ IsWordCh(Ch(s, p - 1))) # (p <= Len(s) /\ IsWordCh(Ch(s, p)))

\* End (exclusive) of the maximal run of local-part characters from p.
RECURSIVE LocalRunEnd(_, _)
LocalRunEnd(s, p) ==
    IF p <= Len(s) /\ IsLocalCh(Ch(s, p)) THEN LocalRunEnd(s, p + 1) ELSE p

RECURSIVE DomainRunEnd(_, _)
DomainRunEnd(s, p) ==
    IF p <= Len(s) /\ IsDomainCh(Ch(s, p)) THEN DomainRunEnd(s, p + 1) ELSE p

RECURSIVE TldRunEnd(_, _, _)
TldRunEnd(s, p, bar) ==
    IF p <= Len(s) /\ IsTldCh(Ch(s, p), bar) THEN TldRunEnd(s, p + 1, bar) ELSE p

\* Ends (exclusive) of \.[A-Z|a-z]{2,}\b when the dot is at position j.
TldEnds(s, j, bar) ==
    {k \in (j + 3)..TldRunEnd(s, j + 1, bar) : WordBoundary(s, k)}

\* End (exclusive) of the match that starts at i, 0 when there is none.
MatchEnd(s, i, bar) ==
    LET e1 == LocalRunEnd(s, i)
        dEnd == DomainRunEnd(s, e1 + 1)
        Js == {j \in (e1 + 2)..(dEnd - 1) : Ch(s, j) = "." /\ TldEnds(s, j, bar) # {}}
    IN  IF /\ WordBoundary(s, i)
           /\ e1 > i
           /\ e1 <= Len(s)
           /\ Ch(s, e1) = "@"
           /\ Js # {}
        THEN Max(TldEnds(s, Max(Js), bar))
        ELSE 0

RECURSIVE FindAllFrom(_, _, _)
FindAllFrom(s, i, bar) ==
    IF i > Len(s)
    THEN <<>>
    ELSE LET e == MatchEnd(s, i, bar)
         IN  IF e > 0
             THEN <<SubSeq(s, i, e - 1)>> \o FindAllFrom(s, e, bar)
             ELSE FindAllFrom(s, i + 1, bar)

\* re.findall(email_pattern, s) with the agent's pattern
FindAll(s) == FindAllFrom(s, 1, TRUE)

\* re.findall(pattern, text) with the pattern of helpers.py
HelperFindAll(s) == FindAllFrom(s, 1, FALSE)

(***************************************************************************)
(* SpideyAgent: classification and recipient extraction                    *)
(* (agents/email_agent.py, call_model_and_execute_tools)                   *)
(***************************************************************************)

draft_keywords == <<"create", "write", "draft", "generate", "make", "compose">>
email_keywords == <<"email", "draft", "message">>
confirmation_keywords ==
    <<"yes", "sure", "go ahead", "please", "okay", "ok", "yeah", "yep">>

\* any(keyword in s for keyword in kws)
AnyKeywordIn(kws, s) == \E i \in 1..Len(kws) : Contains(s, kws[i])

\* chat_history.split('\n')
RECURSIVE SplitLines(_)
SplitLines(s) ==
    IF \E i \in 1..Len(s) : Ch(s, i) = "\n"
    THEN LET i == CHOOSE k \in 1..Len(s) :
                      /\ Ch(s, k) = "\n"
                      /\ \A m \in 1..(k - 1) : Ch(s, m) # "\n"
         IN  <<SubSeq(s, 1, i - 1)>> \o SplitLines(DropFirst(s, i))
    ELSE <<s>>

\* One line of the transcript as the message it becomes (none for other lines).
LineMessages(line) ==
    IF StartsWith(line, "User: ")
    THEN <<[role |-> "human", content |-> DropFirst(line, 6)]>>
    ELSE IF StartsWith(line, "Spidey: ")
         THEN <<[role |-> "ai", content |-> DropFirst(line, 8)]>>
         ELSE <<>>

RECURSIVE HistoryMessages(_)
HistoryMessages(lines) ==
    IF lines = <<>>
    THEN <<>>
    ELSE LineMessages(Head(lines)) \o HistoryMessages(Tail(lines))

\* The message list SpideyAgent.invoke builds from its arguments.
BuildMessages(history, input) ==
    (IF Truthy(history) THEN HistoryMessages(SplitLines(history)) ELSE <<>>)
        \o <<[role |-> "human", content |-> input]>>

\* full_conversation: every HumanMessage's content followed by a space.
RECURSIVE FullConversation(_)
FullConversation(msgs) ==
    IF msgs = <<>>
    THEN ""
    ELSE (IF Head(msgs).role = "human" THEN Head(msgs).content \o " " ELSE "")
             \o FullConversation(Tail(msgs))

\* last_user_msg: the content of the last HumanMessage ("" when there is none).
RECURSIVE LastUserMsg(_)
LastUserMsg(msgs) ==
    IF msgs = <<>>
    THEN ""
    ELSE IF msgs[Len(msgs)].role = "human"
         THEN msgs[Len(msgs)].content
         ELSE LastUserMsg(SubSeq(msgs, 1, Len(msgs) - 1))

\* is_draft_request without the clause for a confirmation of an earlier request.
IsDraftRequestLastOnly(last, full) ==
    /\ AnyKeywordIn(draft_keywords, Lower(last))
    /\ AnyKeywordIn(email_keywords, Lower(last))

\* is_draft_request
IsDraftRequest(last, full) ==
    \/ /\ AnyKeywordIn(draft_keywords, Lower(last))
       /\ AnyKeywordIn(email_keywords, Lower(last))
    \/ /\ AnyKeywordIn(draft_keywords, Lower(full))
       /\ AnyKeywordIn(email_keywords, Lower(full))
       /\ AnyKeywordIn(confirmation_keywords, Lower(last))

\* The addresses of the full conversation, whatever the last message holds.
FoundAddressesFullOnly(last, full) == FindAll(full)

\* The text whose addresses are used: the last message when it holds any,
\* the full conversation otherwise.
FoundAddresses(last, full) ==
    IF FindAll(last) # <<>> THEN FindAll(last) ELSE FindAll(full)

\* email != user_email
NotOwnAddress(email, own) == email # own

\* [email for email in recipient_emails if email != user_email]
RECURSIVE FilterOwn(_, _)
FilterOwn(emails, own) ==
    IF emails = <<>>
    THEN <<>>
    ELSE (IF NotOwnAddress(Head(emails), own) THEN <<Head(emails)>> ELSE <<>>)
             \o FilterOwn(Tail(emails), own)

Elems(seq) == {seq[i] : i \in 1..Len(seq)}

\* list(dict.fromkeys(xs)): the first occurrence of each element, in order.
RECURSIVE DictFromKeys(_)
DictFromKeys(xs) ==
    IF xs = <<>>
    THEN <<>>
    ELSE LET init == DictFromKeys(SubSeq(xs, 1, Len(xs) - 1))
             last == xs[Len(xs)]
         IN  IF last \in Elems(init) THEN init ELSE Append(init, last)

\* recipient_emails as the agent computes them.
ExtractRecipients(last, full, own) ==
    DictFromKeys(FilterOwn(FoundAddresses(last, full), own))

(***************************************************************************)
(* SpideyAgent: draft content generation                                   *)
(***************************************************************************)

\* str.title(): the first cased character of each run of cased characters
\* in upper case, the others in lower case.
RECURSIVE TitleFrom(_, _, _)
TitleFrom(s, i, prevCased) ==
    IF i > Len(s)
    THEN ""
    ELSE LET c == Ch(s, i)
         IN  (IF IsLetter(c)
              THEN (IF prevCased THEN LowerCh(c) ELSE UpperCh(c))
              ELSE c) \o TitleFrom(s, i + 1, IsLetter(c))

Title(s) == TitleFrom(s, 1, FALSE)

\* Position of the first occurrence of sep in s, 0 when there is none.
IndexOf(s, sep) ==
    IF Contains(s, sep)
    THEN CHOOSE i \in 1..(Len(s) - Len(sep) + 1) :
             /\ SubSeq(s, i, i + Len(sep) - 1) = sep
             /\ \A k \in 1..(i - 1) : SubSeq(s, k, k + Len(sep) - 1) # sep
    ELSE 0

\* s.split(sep, 1)[0] and [1] when sep occurs in s.
BeforeFirst(s, sep) == SubSeq(s, 1, IndexOf(s, sep) - 1)
AfterFirst(s, sep) == DropFirst(s, IndexOf(s, sep) + Len(sep) - 1)

\* s.replace(pat, "")
RECURSIVE RemoveAll(_, _)
RemoveAll(s, pat) ==
    IF Contains(s, pat)
    THEN BeforeFirst(s, pat) \o RemoveAll(AfterFirst(s, pat), pat)
    ELSE s

\* recipient.split('@')[0].title()
RecipientName(recipient) ==
    Title(IF Contains(recipient, "@") THEN BeforeFirst(recipient, "@") ELSE recipient)

GreetingBody(name) ==
    "Hi " \o name \o ",\n\nI hope this message finds you well.\n\nBest regards"

\* subject and body taken from the model's text (the defaults when the text
\* does not hold both markers).
ParsedSubject(text) ==
    IF Contains(text, "SUBJECT:") /\ Contains(text, "BODY:")
    THEN RemoveAll(RemoveAll(Strip(RemoveAll(BeforeFirst(text, "BODY:"), "SUBJECT:")),
                             "**"), "*")
    ELSE "Professional Outreach"

ParsedBody(text, name) ==
    IF Contains(text, "SUBJECT:") /\ Contains(text, "BODY:")
    THEN RemoveAll(RemoveAll(Strip(AfterFirst(text, "BODY:")), "**"), "*")
    ELSE GreetingBody(name)

DraftDict(own, to, subject, body) ==
    [is_dict |-> TRUE,
     fields |-> [user_email |-> own, to_email |-> to,
                 subject |-> subject, body |-> body]]

\* A generation step whose failed call appends the default subject of the
\* parsing step in place of the template's.
GeneratedDraftDefaultSubject(own, recipient, outcome) ==
    DraftDict(own, recipient,
              IF outcome.kind = "raise" THEN "Professional Outreach"
              ELSE ParsedSubject(outcome.text),
              ParsedBody(outcome.text, RecipientName(recipient)))

\* The draft appended for one recipient: from the model's text, or the
\* template when the call raised.
GeneratedDraft(own, recipient, outcome) ==
    IF outcome.kind = "raise"
    THEN DraftDict(own, recipient,
                   "Message for " \o RecipientName(recipient),
                   GreetingBody(RecipientName(recipient)))
    ELSE DraftDict(own, recipient,
                   ParsedSubject(outcome.text),
                   ParsedBody(outcome.text, RecipientName(recipient)))

(***************************************************************************)
(* Draft dispatch: _create_email_drafts_impl (tools/email_draft_tool.py)   *)
(* and create_email_drafts (tools.py).  A draft is [is_dict, fields]:      *)
(* fields maps the keys the dict holds to their strings.                   *)
(***************************************************************************)

required_fields == <<"to_email", "subject", "body">>

\* missing_fields of one draft: the required keys absent or with a falsy value.
MissingFields(draft) ==
    {f \in Elems(required_fields) :
        f \notin DOMAIN draft.fields \/ ~Truthy(draft.fields[f])}

\* A draft the loop keeps: a dict with no missing field.
PassesValidation(draft) == draft.is_dict /\ MissingFields(draft) = {}

\* DraftItem(user_email=..., to_email=draft["to_email"].strip(), ...)
DraftItem(own, draft) ==
    [user_email |-> own,
     to_email |-> Strip(draft.fields["to_email"]),
     subject |-> Strip(draft.fields["subject"]),
     body |-> Strip(draft.fields["body"])]

\* valid_drafts after the loop
RECURSIVE ValidDrafts(_, _)
ValidDrafts(own, batch) ==
    IF batch = <<>>
    THEN <<>>
    ELSE (IF PassesValidation(Head(batch))
          THEN <<DraftItem(own, Head(batch))>>
          ELSE <<>>) \o ValidDrafts(own, Tail(batch))

\* skipped after the loop
SkippedCount(batch) == Cardinality({i \in 1..Len(batch) : ~PassesValidation(batch[i])})

\* The early returns before the request is sent.
EarlyReturn(own, batch) ==
    IF ~Truthy(own) THEN "invalid_user_email"
    ELSE IF batch = <<>> THEN "invalid_drafts"
    ELSE IF ValidDrafts(own, batch) = <<>> THEN "no_valid_drafts"
    ELSE "none"

\* Whether requests.post is reached.
PostsRequest(own, batch) == EarlyReturn(own, batch) = "none"

\* CreateMultiDraftRequest(...).dict(): the JSON body posted.
RequestData(own, batch) == [user_email |-> own, drafts |-> ValidDrafts(own, batch)]

\* What the call to POST /create-multi-draft can produce for n drafts sent:
\* 200 with a count and that many ids, 200 with a body that is not JSON,
\* another status, a timeout, a connection error.
EndpointOutcomes(n) ==
    {[kind |-> "ok", status |-> 200, drafts_created |-> c] : c \in 0..n}
        \cup {[kind |-> "bad_json", status |-> 200, drafts_created |-> 0],
              [kind |-> "http_error", status |-> 500, drafts_created |-> 0],
              [kind |-> "timeout", status |-> 0, drafts_created |-> 0],
              [kind |-> "connection_error", status |-> 0, drafts_created |-> 0]}

DraftIds(n) == [i \in 1..n |-> i]

\* The requests sent so far, each with the answer it got: log, and the
\* request of this call when requests.post is reached.
Posted(log, own, batch, outcome) ==
    IF PostsRequest(own, batch)
    THEN Append(log, [body |-> RequestData(own, batch), answer |-> outcome])
    ELSE log

\* The string _create_email_drafts_impl returns, as the message it is and the
\* values formatted into it.  skipped_shown: the "(k draft(s) were skipped"
\* clause is part of the message.
ToolMessage(kind, status, created, skipped) ==
    [kind |-> kind, status |-> status, drafts_created |-> created,
     draft_ids |-> DraftIds(created),
     skipped_shown |-> (kind = "created" /\ skipped > 0),
     skipped |-> IF kind = "created" /\ skipped > 0 THEN skipped ELSE 0]

\* _create_email_drafts_impl(user_email, drafts), given the endpoint's answer.
CreateEmailDraftsImpl(own, batch, outcome) ==
    IF ~PostsRequest(own, batch)
    THEN ToolMessage(EarlyReturn(own, batch), 0, 0, 0)
    ELSE IF outcome.kind = "ok"
         THEN ToolMessage("created", 200, outcome.drafts_created, SkippedCount(batch))
    ELSE IF outcome.kind = "http_error"
         THEN ToolMessage("api_call_failed", outcome.status, 0, 0)
    ELSE IF outcome.kind = "timeout"
         THEN ToolMessage("timed_out", 0, 0, 0)
    ELSE IF outcome.kind = "connection_error"
         THEN ToolMessage("could_not_connect", 0, 0, 0)
    ELSE ToolMessage("unexpected_error", 0, 0, 0)

\* The dict create_email_drafts of tools.py returns: success and message
\* always, drafts_created and draft_ids on success only (has_counts).
ToolDict(success, message, created) ==
    [success |-> success, message |-> message, has_counts |-> success,
     drafts_created |-> created, draft_ids |-> DraftIds(created)]

\* create_email_drafts(user_email, drafts_data) of tools.py.
CreateEmailDrafts(own, batch, outcome) ==
    IF ~PostsRequest(own, batch)
    THEN ToolDict(FALSE, EarlyReturn(own, batch), 0)
    ELSE IF outcome.kind = "ok"
         THEN ToolDict(TRUE, "created", outcome.drafts_created)
    ELSE IF outcome.kind = "http_error" THEN ToolDict(FALSE, "api_call_failed", 0)
    ELSE IF outcome.kind = "timeout" THEN ToolDict(FALSE, "timed_out", 0)
    ELSE IF outcome.kind = "connection_error" THEN ToolDict(FALSE, "could_not_connect", 0)
    ELSE ToolDict(FALSE, "unexpected_error", 0)

(***************************************************************************)
(* helpers.extract_email_addresses                                         *)
(***************************************************************************)

\* The injective enumerations of a finite set.
Perms(S) ==
    {p \in [1..Cardinality(S) -> S] : \A i, j \in 1..Cardinality(S) : p[i] = p[j] => i = j}

RECURSIVE KeepIn(_, _)
KeepIn(seq, S) ==
    IF seq = <<>>
    THEN <<>>
    ELSE (IF Head(seq) \in S THEN <<Head(seq)>> ELSE <<>>) \o KeepIn(Tail(seq), S)

\* list(set(emails)): the distinct elements in the iteration order of the set,
\* which the string hashes of the running process fix (order).
ListOfSet(emails, order) == KeepIn(order, Elems(emails))

\* extract_email_addresses(text)
ExtractEmailAddresses(text, order) ==
    IF ~Truthy(text) THEN <<>> ELSE ListOfSet(HelperFindAll(text), order)

(***************************************************************************)
(* Inputs                                                                  *)
(***************************************************************************)

MaxAddrs == 2       \* addresses written in the current turn
MaxHistLines == 1   \* lines of the supplied transcript
MaxBatch == 2       \* drafts in a batch handed to the dispatch operation
MaxRuns == 2        \* calls of an extraction function on one text

Sender == "me@x.co"

\* The sender's address, the same mailbox with its domain in upper case, and
\* somebody else's address.
Addresses == {"sam@x.co", Sender, "me@X.CO"}

Openers == {"", "write an email to", "How do I write an email to", "yes", "do it",
            "send it to"}

AddrLists == UNION {[1..n -> Addresses] : n \in 0..MaxAddrs}

RECURSIVE JoinWith(_, _)
JoinWith(parts, sep) ==
    IF parts = <<>> THEN ""
    ELSE IF Len(parts) = 1 THEN parts[1]
    ELSE parts[1] \o sep \o JoinWith(Tail(parts), sep)

TurnText(opener, addrs) ==
    JoinWith((IF opener = "" THEN <<>> ELSE <<opener>>) \o addrs, " ")

\* The texts of a current turn: an opener, addresses, or both.
UserTurns == {TurnText(o, a) : o \in Openers, a \in AddrLists} \ {""}

\* Lines of a transcript: user turns, an assistant turn, and the second line
\* of a user turn that was typed on two lines.
HistLines ==
    {"User: write an email to sam@x.co",
     "User: write an email",
     "User: hello me@X.CO",
     "Spidey: Who is the recipient?",
     "compose a message for sam@x.co"}

Histories == {JoinWith(ls, "\n") : ls \in UNION {[1..n -> HistLines] : n \in 0..MaxHistLines}}

UserEmails == {"", Sender}

\* What self.llm.invoke(draft_generation_prompt) can produce.
ContentOutcomes ==
    {[kind |-> "raise", text |-> ""],
     [kind |-> "text", text |-> "SUBJECT: Hello\nBODY: Hi there"],
     [kind |-> "text", text |-> "**SUBJECT:** \n**BODY:** *Hi*"],
     [kind |-> "text", text |-> "SUBJECT:\nBODY: Hi there"],
     [kind |-> "text", text |-> "Sure, here is a draft"]}

\* What self.llm.invoke(prompt) can produce on the conversational path: a
\* reply (asking for the recipient, advice, an offer to create the drafts),
\* the AttributeError of the Gemini client, another AttributeError, and
\* the three kinds of other exceptions the handler tells apart.
ChatOutcomes ==
    {[kind |-> "reply", topic |-> t] : t \in {"asks_for_recipient", "gives_advice", "offers_drafts"}}
        \cup {[kind |-> k, topic |-> ""] :
                 k \in {"attribute_error_int_name", "attribute_error_other",
                        "api_key_invalid", "quota", "other_error"}}

FieldValues == [to_email |-> {"", "sam@x.co"}, subject |-> {"", " ", "Hi"}, body |-> {"", "Text"}]

\* Drafts a caller can hand to the dispatch operation: dicts with every
\* key, a dict without its body key, and an item that is not a dict.
DraftPool ==
    {[is_dict |-> TRUE, fields |-> [to_email |-> t, subject |-> sj, body |-> b]] :
        t \in FieldValues.to_email, sj \in FieldValues.subject, b \in FieldValues.body}
        \cup {[is_dict |-> TRUE, fields |-> [to_email |-> "sam@x.co", subject |-> "Hi"]],
              [is_dict |-> FALSE, fields |-> <<>>]}

Batches == UNION {[1..n -> DraftPool] : n \in 0..MaxBatch}

(***************************************************************************)
(* State                                                                   *)
(***************************************************************************)

VARIABLES
    pc,                \* where the request is
    user_input,        \* invoke's user_input (the text, for the helpers)
    chat_history,      \* invoke's chat_history
    user_email,        \* invoke's user_email / the tool's user_email
    is_draft_request,  \* the node's is_draft_request
    recipient_emails,  \* the node's recipient_emails
    drafts,            \* the node's drafts / the batch given to the tool
    llm_calls,         \* the calls of the model made, in order, with their outcomes
    tool_calls,        \* the calls of self.tools[0].func made, in order
    posted,            \* the requests posted to /create-multi-draft, with their answers
    tool_result,       \* what the dispatch operation returned
    result,            \* what SpideyAgent.invoke returned
    hash_order,        \* iteration order of a set of strings in this process
    extracted,         \* results of the extraction calls made, in order
    gemini,            \* process_with_gemini: the key, what `tools` names, model, parsed reply, returned dict
    db,                \* Firestore collection google_oauth_credentials: id -> fields
    users,             \* Firestore collection users: id -> fields
    mailbox,           \* Firestore subcollection users/<id>/emails: id -> (message id -> threadId)
    now,               \* int(time.time())
    served,            \* the last call of a storage-backed operation and what it answered
    race               \* concurrent /invoke requests: genai's configured key and each thread

vars == <<pc, user_input, chat_history, user_email, is_draft_request,
          recipient_emails, drafts, llm_calls, tool_calls, posted,
          tool_result, result, hash_order, extracted, gemini,
          db, users, mailbox, now, served, race>>

\* The variables of the storage-backed services and of the thread pool.
serviceVars == <<db, users, mailbox, now, served, race>>

\* One call of the model: the call site, how it ended and the text it
\* returned (the message of the exception when it raised one).
LlmCall(site, kind, text) == [site |-> site, kind |-> kind, text |-> text]

NoResponse == [kind |-> "none", topic |-> "", count |-> 0, recipients |-> <<>>]
NoResult == [success |-> FALSE, response |-> NoResponse, action_taken |-> "none",
             has_tool_result |-> FALSE]
NoToolResult == ToolMessage("none", 0, 0, 0)

\* Python's None, and JSON's null, where a string is expected.
PyNone == "<None>"

\* No call of process_with_gemini in this request.
NoGemini == [api_key |-> "", tools_is |-> "", model |-> PyNone,
             parsed |-> <<>>, returned |-> <<>>]

\* The storage-backed services and the thread pool, left out of a scenario.
NoServices ==
    /\ db = <<>>
    /\ users = <<>>
    /\ mailbox = <<>>
    /\ now = 0
    /\ served = <<>>
    /\ race = <<>>

\* Everything but the inputs, before anything ran.
Fresh ==
    /\ is_draft_request = FALSE
    /\ recipient_emails = <<>>
    /\ llm_calls = <<>>
    /\ tool_calls = <<>>
    /\ posted = <<>>
    /\ tool_result = NoToolResult
    /\ result = NoResult
    /\ extracted = <<>>

(***************************************************************************)
(* SpideyAgent.invoke: the graph run and the returned dict                 *)
(***************************************************************************)

\* The keys of AgentState: the channels of StateGraph(AgentState).  The graph
\* writes a node's update to these keys only; invoke reads the final state.
StateKeys == {"messages", "user_email", "key_type", "api_key", "error"}

\* initial_state of invoke; error=None is the falsy "".
InitialState(msgs, own) ==
    [messages |-> msgs, user_email |-> own, key_type |-> "gemini_api_key",
     api_key |-> "key", error |-> ""]

\* final_state = self.graph.invoke(initial_state), for the dict the node returned.
FinalState(initial, update) ==
    [k \in StateKeys |-> IF k \in DOMAIN update THEN update[k] ELSE initial[k]]

AIMessage(content) == [role |-> "ai", content |-> content]

\* final_state.get("tool_executed", False)
ToolExecuted(final) ==
    IF "tool_executed" \in DOMAIN final THEN final["tool_executed"] ELSE FALSE

\* The dict invoke returns when the graph run returned.
InvokeReturn(final) ==
    [success |-> ~Truthy(final["error"]),
     response |-> final["messages"][Len(final["messages"])].content,
     action_taken |-> IF ToolExecuted(final) THEN "tool_execution" ELSE "agent_execution",
     has_tool_result |-> ToolExecuted(final)]

\* The dict invoke returns when the graph run raised.
InvokeError ==
    [success |-> FALSE,
     response |-> [kind |-> "invoke_apology", topic |-> "", count |-> 0, recipients |-> <<>>],
     action_taken |-> "error",
     has_tool_result |-> FALSE]

\* response_text after the tool call: "Successfully created {len(drafts)}
\* email draft(s) for you! Recipients: {', '.join(recipient_emails)}"
CreatedResponse(batch, recipients) ==
    [kind |-> "successfully_created", topic |-> "", count |-> Len(batch),
     recipients |-> recipients]

\* The node's return after the tool call.
ToolNodeUpdate(batch, recipients, tr) ==
    [messages |-> <<AIMessage(CreatedResponse(batch, recipients))>>,
     tool_executed |-> TRUE,
     tool_result |-> tr]

\* The node's return on the conversational path, for each outcome of the
\* model call that does not propagate.
ChatNodeUpdate(outcome) ==
    IF outcome.kind = "reply"
    THEN [messages |-> <<AIMessage([kind |-> "model_reply", topic |-> outcome.topic,
                                    count |-> 0, recipients |-> <<>>])>>]
    ELSE IF outcome.kind = "attribute_error_int_name"
    THEN [messages |-> <<AIMessage([kind |-> "greeting_fallback", topic |-> "",
                                    count |-> 0, recipients |-> <<>>])>>]
    ELSE [messages |-> <<AIMessage([kind |-> "apology", topic |-> outcome.kind,
                                    count |-> 0, recipients |-> <<>>])>>,
          error |-> "Error calling LLM"]

\* invoke's return on the conversational path.
ChatReturn(msgs, own, outcome) ==
    IF outcome.kind = "attribute_error_other"
    THEN InvokeError
    ELSE InvokeReturn(FinalState(InitialState(msgs, own), ChatNodeUpdate(outcome)))

(***************************************************************************)
(* Actions of one SpideyAgent.invoke call                                  *)
(***************************************************************************)

\* invoke builds the messages; the node classifies the request and, for a
\* draft request with a known user_email, extracts the recipients.
AgentClassify ==
    /\ pc = "start"
    /\ LET msgs == BuildMessages(chat_history, user_input)
           last == LastUserMsg(msgs)
           full == FullConversation(msgs)
           req == IsDraftRequest(last, full)
           rec == IF req /\ Truthy(user_email)
                  THEN ExtractRecipients(last, full, user_email)
                  ELSE <<>>
       IN  /\ is_draft_request' = req
           /\ recipient_emails' = rec
           /\ pc' = IF rec # <<>> THEN "generate" ELSE "converse"
    /\ UNCHANGED <<user_input, chat_history, user_email, drafts, llm_calls,
                   tool_calls, posted, tool_result, result, hash_order, extracted, gemini>>
    /\ UNCHANGED serviceVars

\* A loop that a raising call ends: no draft for that recipient, and the
\* drafts generated before it go to the tool.
GenerateDraftAbortOnFailure ==
    /\ pc = "generate"
    /\ \E outcome \in ContentOutcomes :
          /\ drafts' = IF outcome.kind = "raise"
                       THEN drafts
                       ELSE Append(drafts,
                                   GeneratedDraft(user_email,
                                                  recipient_emails[Len(drafts) + 1], outcome))
          /\ llm_calls' = Append(llm_calls, LlmCall("content", outcome.kind, outcome.text))
          /\ pc' = IF outcome.kind = "raise" \/ Len(drafts) + 1 = Len(recipient_emails)
                   THEN "dispatch" ELSE "generate"
    /\ UNCHANGED <<user_input, chat_history, user_email, is_draft_request,
                   recipient_emails, tool_calls, posted, tool_result, result,
                   hash_order, extracted, gemini>>
    /\ UNCHANGED serviceVars

\* One pass of the loop over recipient_emails: one model call, one draft.
GenerateDraft ==
    /\ pc = "generate"
    /\ \E outcome \in ContentOutcomes :
          /\ drafts' = Append(drafts,
                              GeneratedDraft(user_email,
                                             recipient_emails[Len(drafts) + 1], outcome))
          /\ llm_calls' = Append(llm_calls, LlmCall("content", outcome.kind, outcome.text))
    /\ pc' = IF Len(drafts) + 1 = Len(recipient_emails) THEN "dispatch" ELSE "generate"
    /\ UNCHANGED <<user_input, chat_history, user_email, is_draft_request,
                   recipient_emails, tool_calls, posted, tool_result, result,
                   hash_order, extracted, gemini>>
    /\ UNCHANGED serviceVars

\* self.tools[0].func(**tool_input), the node's return and invoke's return.
DispatchDrafts ==
    /\ pc = "dispatch"
    /\ \E outcome \in EndpointOutcomes(Len(ValidDrafts(user_email, drafts))) :
          LET tr == CreateEmailDraftsImpl(user_email, drafts, outcome)
              msgs == BuildMessages(chat_history, user_input)
          IN  /\ posted' = Posted(posted, user_email, drafts, outcome)
              /\ tool_result' = tr
              /\ result' = InvokeReturn(FinalState(InitialState(msgs, user_email),
                                                   ToolNodeUpdate(drafts, recipient_emails, tr)))
    /\ tool_calls' = Append(tool_calls, [user_email |-> user_email, drafts |-> drafts])
    /\ pc' = "done"
    /\ UNCHANGED <<user_input, chat_history, user_email, is_draft_request,
                   recipient_emails, drafts, llm_calls, hash_order, extracted, gemini>>
    /\ UNCHANGED serviceVars

\* The normal conversational response: one model call, then invoke's return.
Converse ==
    /\ pc = "converse"
    /\ \E outcome \in ChatOutcomes :
          /\ result' = ChatReturn(BuildMessages(chat_history, user_input), user_email, outcome)
          /\ llm_calls' = Append(llm_calls, LlmCall("chat", outcome.kind, ""))
    /\ pc' = "done"
    /\ UNCHANGED <<user_input, chat_history, user_email, is_draft_request,
                   recipient_emails, drafts, tool_calls, posted, tool_result,
                   hash_order, extracted, gemini>>
    /\ UNCHANGED serviceVars

(***************************************************************************)
(* Actions of the dispatch operations called on a batch                    *)
(***************************************************************************)

\* _create_email_drafts_impl(user_email, drafts)
CallDraftTool ==
    /\ pc = "batch"
    /\ \E outcome \in EndpointOutcomes(Len(ValidDrafts(user_email, drafts))) :
          /\ posted' = Posted(posted, user_email, drafts, outcome)
          /\ tool_result' = CreateEmailDraftsImpl(user_email, drafts, outcome)
    /\ pc' = "impl_done"
    /\ UNCHANGED <<user_input, chat_history, user_email, is_draft_request,
                   recipient_emails, drafts, llm_calls, tool_calls, result,
                   hash_order, extracted, gemini>>
    /\ UNCHANGED serviceVars

\* create_email_drafts(user_email, drafts_data) of tools.py
CallCreateEmailDrafts ==
    /\ pc = "batch"
    /\ \E outcome \in EndpointOutcomes(Len(ValidDrafts(user_email, drafts))) :
          /\ posted' = Posted(posted, user_email, drafts, outcome)
          /\ tool_result' = CreateEmailDrafts(user_email, drafts, outcome)
    /\ pc' = "tools_done"
    /\ UNCHANGED <<user_input, chat_history, user_email, is_draft_request,
                   recipient_emails, drafts, llm_calls, tool_calls, result,
                   hash_order, extracted, gemini>>
    /\ UNCHANGED serviceVars

(***************************************************************************)
(* Actions of the extraction functions called on one text                  *)
(***************************************************************************)

\* extract_email_addresses(text) of helpers.py
HelperExtract ==
    /\ pc = "extract"
    /\ Len(extracted) < MaxRuns
    /\ extracted' = Append(extracted,
                           [by |-> "helper",
                            out |-> ExtractEmailAddresses(user_input, hash_order)])
    /\ UNCHANGED <<pc, user_input, chat_history, user_email, is_draft_request,
                   recipient_emails, drafts, llm_calls, tool_calls, posted,
                   tool_result, result, hash_order, gemini>>
    /\ UNCHANGED serviceVars

\* The agent's extraction step on a conversation of one user turn.
AgentExtract ==
    /\ pc = "extract"
    /\ Len(extracted) < MaxRuns
    /\ extracted' = Append(extracted,
                           [by |-> "agent",
                            out |-> ExtractRecipients(user_input, user_input \o " ",
                                                      user_email)])
    /\ UNCHANGED <<pc, user_input, chat_history, user_email, is_draft_request,
                   recipient_emails, drafts, llm_calls, tool_calls, posted,
                   tool_result, result, hash_order, gemini>>
    /\ UNCHANGED serviceVars

(***************************************************************************)
(* main.py: process_with_gemini and the POST /invoke handler invoke_spidey.  *)
(* A Python dict is the function from the keys it holds to their values.   *)
(***************************************************************************)

\* d.get(k, default)
Get(d, k, default) == IF k \in DOMAIN d THEN d[k] ELSE default

model_names == <<"gemini-2.0-flash", "gemini-2.5-flash-lite">>

\* model after the loop over model_names: the first name whose
\* genai.GenerativeModel(name) did not raise, None when each raised.
SelectedModel(built) ==
    IF \E i \in 1..Len(model_names) : built[i] = "ok"
    THEN model_names[CHOOSE i \in 1..Len(model_names) :
                         built[i] = "ok" /\ \A k \in 1..(i - 1) : built[k] # "ok"]
    ELSE PyNone

\* The code fence of Markdown, three backquotes; written with a character a
\* TLA+ string can hold.
Fence == "~~~"

\* The clean-up of response_text before json.loads.
CleanedText(text) ==
    LET t == Strip(text)
    IN  IF StartsWith(t, Fence \o "json")
        THEN RemoveAll(RemoveAll(t, Fence \o "json\n"), "\n" \o Fence)
        ELSE IF StartsWith(t, Fence)
        THEN RemoveAll(RemoveAll(t, Fence \o "\n"), "\n" \o Fence)
        ELSE t

JsonDraft(to, subject, body) ==
    [is_dict |-> TRUE, fields |-> [to_email |-> to, subject |-> subject, body |-> body]]

\* JSON documents the model can answer with, each with the value json.loads
\* gives for it.
JsonDocs ==
    {[text |-> "{\"action\": \"create_drafts\", \"drafts\": [{\"to_email\": \"sam@x.co\", \"subject\": \"Hi\", \"body\": \"Text\"}], \"explanation\": \"Drafted\"}",
      type |-> "object",
      value |-> [action |-> "create_drafts",
                 drafts |-> <<JsonDraft("sam@x.co", "Hi", "Text")>>,
                 explanation |-> "Drafted"]],
     [text |-> "{\"action\": \"create_drafts\", \"drafts\": [{\"to_email\": \"me@x.co\", \"subject\": \"Hi\", \"body\": \"Text\"}, {\"to_email\": \"sam@x.co\", \"subject\": \" \", \"body\": \"Text\"}]}",
      type |-> "object",
      value |-> [action |-> "create_drafts",
                 drafts |-> <<JsonDraft("me@x.co", "Hi", "Text"),
                              JsonDraft("sam@x.co", " ", "Text")>>]],
     [text |-> "{\"action\": \"create_drafts\", \"drafts\": [{\"to_email\": \"sam@x.co\", \"subject\": \"Hi\", \"body\": \"Text\"}], \"explanation\": null}",
      type |-> "object",
      value |-> [action |-> "create_drafts",
                 drafts |-> <<JsonDraft("sam@x.co", "Hi", "Text")>>,
                 explanation |-> PyNone]],
     [text |-> "{\"action\": \"create_drafts\", \"drafts\": [], \"explanation\": \"Nobody to write to\"}",
      type |-> "object",
      value |-> [action |-> "create_drafts", drafts |-> <<>>,
                 explanation |-> "Nobody to write to"]],
     [text |-> "{\"action\": \"provide_guidance\", \"response\": \"Keep it short\", \"explanation\": \"Advice\"}",
      type |-> "object",
      value |-> [action |-> "provide_guidance", response |-> "Keep it short",
                 explanation |-> "Advice"]],
     [text |-> "{\"action\": \"need_info\", \"questions\": [\"Who is the recipient?\"], \"explanation\": \"No recipient\"}",
      type |-> "object",
      value |-> [action |-> "need_info", questions |-> <<"Who is the recipient?">>,
                 explanation |-> "No recipient"]],
     [text |-> "{\"action\": \"send_email\"}",
      type |-> "object",
      value |-> [action |-> "send_email"]],
     [text |-> "[]", type |-> "array", value |-> <<>>]}

\* json.loads(text): the document, or the JSONDecodeError.
JsonLoads(text) ==
    IF \E d \in JsonDocs : d.text = text
    THEN CHOOSE d \in JsonDocs : d.text = text
    ELSE [text |-> text, type |-> "JSONDecodeError", value |-> <<>>]

\* The dicts process_with_gemini returns when it created nothing.
GeminiError(reason) ==
    [action_taken |-> "error", gemini_response |-> reason, suggestions |-> <<reason>>]

\* The return for the exception model.generate_content raised.
ApiErrorReturn(error) ==
    IF Contains(error, "API_KEY_INVALID") \/ Contains(error, "API key not valid")
    THEN GeminiError("Invalid Gemini API key")
    ELSE IF Contains(Lower(error), "quota") \/ Contains(Lower(error), "rate limit")
    THEN GeminiError("Gemini API quota exceeded")
    ELSE GeminiError("Gemini API error")

\* The return when json.loads raised JSONDecodeError.
NotJsonReturn(text) ==
    [action |-> "provide_guidance", explanation |-> text, suggestions |-> <<"details">>]

\* The return of the outer except clause.
OuterExceptReturn == GeminiError("I encountered an error")

\* The returns of the branches after the create_drafts branch, for a parsed
\* object.
NoToolReturn(parsed) ==
    IF Get(parsed, "action", PyNone) = "provide_guidance"
    THEN [action_taken |-> "provide_guidance",
          gemini_response |-> Get(parsed, "response", ""),
          explanation |-> Get(parsed, "explanation", "")]
    ELSE IF Get(parsed, "action", PyNone) = "need_info"
    THEN [action_taken |-> "need_info",
          gemini_response |-> Get(parsed, "explanation", ""),
          questions |-> Get(parsed, "questions", <<>>)]
    ELSE [action_taken |-> "clarification_needed",
          gemini_response |-> "I need more specific information",
          questions |-> <<"recipients?", "type?", "purpose?">>]

\* The create_drafts branch is taken: the action is create_drafts and the
\* drafts list is not empty.
TakesCreateDrafts(parsed) ==
    /\ Get(parsed, "action", PyNone) = "create_drafts"
    /\ Get(parsed, "drafts", <<>>) # <<>>

\* The return of the create_drafts branch for the tool's dict.
CreatedReturn(parsed, tool_dict) ==
    [action_taken |-> "Created email drafts",
     gemini_response |-> Get(parsed, "explanation", ""),
     tool_result |-> tool_dict,
     drafts_created |-> IF tool_dict.has_counts THEN tool_dict.drafts_created ELSE 0,
     draft_ids |-> IF tool_dict.has_counts THEN tool_dict.draft_ids ELSE <<>>]

\* An Optional field of SpideyResponse: <<>> is None, <<v>> the value v.
Optional(present, v) == IF present THEN <<v>> ELSE <<>>

\* The SpideyResponse of the handler's except clause.
HandlerError ==
    [success |-> FALSE, message |-> "Spidey encountered an error",
     action_taken |-> PyNone, drafts_created |-> <<>>, draft_ids |-> <<>>,
     questions |-> <<>>]

\* What invoke_spidey returns for the dict process_with_gemini returned.  A
\* message that is not a str fails the validation of SpideyResponse, inside
\* the try.
HandlerReturn(returned) ==
    LET agent_output == Get(returned, "gemini_response", "")
        action_taken == Get(returned, "action_taken", PyNone)
        drafts_created == Get(returned, "drafts_created", 0)
        draft_ids == Get(returned, "draft_ids", <<>>)
        questions == Get(returned, "questions", <<>>)
    IN  IF agent_output = PyNone
        THEN HandlerError
        ELSE IF action_taken = "provide_guidance"
        THEN [success |-> TRUE, message |-> agent_output, action_taken |-> action_taken,
              drafts_created |-> <<>>, draft_ids |-> <<>>, questions |-> <<>>]
        ELSE [success |-> TRUE, message |-> agent_output, action_taken |-> action_taken,
              drafts_created |-> Optional(drafts_created > 0, drafts_created),
              draft_ids |-> Optional(draft_ids # <<>>, draft_ids),
              questions |-> Optional(questions # <<>>, questions)]

\* gemini_api_key of a request: none, a Gemini key, a key of another provider.
ApiKeys == {"", "AIzaKey", "sk-or-key"}

\* What the name tools is bound to where main.py runs the import
\* `from tools import TOOL_FUNCTIONS`: the package tools/ (it exports no
\* TOOL_FUNCTIONS, the import raises ImportError) or the module tools.py.
ToolsModules == {"package", "module"}

\* Whether genai.GenerativeModel(name) raised, for each name of model_names.
BuildOutcomes == [1..Len(model_names) -> {"ok", "raise"}]

Tasks == {"Create an outreach email to sam@x.co", "How do I write better emails?"}

\* A document as the model writes it: bare, surrounded by white space, in a
\* fence with or without the json tag, and in a fence on one line.
Renderings(text) ==
    {text,
     " " \o text \o "\n",
     Fence \o "json\n" \o text \o "\n" \o Fence,
     Fence \o "\n" \o text \o "\n" \o Fence,
     Fence \o "json " \o text \o " " \o Fence}

\* What model.generate_content(enhanced_prompt) can produce: an exception
\* (by its message) or a text.
GeminiOutcomes ==
    {[kind |-> "raise", error |-> e, text |-> ""] :
        e \in {"API_KEY_INVALID", "429 Quota exceeded", "503 Service Unavailable"}}
        \cup {[kind |-> "text", error |-> "", text |-> t] :
                 t \in UNION {Renderings(d.text) : d \in JsonDocs}
                          \cup {"Keep your emails short."}}

\* A request that skips the format check of the key.
GeminiConfigureNoKeyCheck ==
    /\ pc = "http"
    /\ \E built \in BuildOutcomes :
          IF SelectedModel(built) = PyNone
          THEN /\ gemini' = [gemini EXCEPT
                                !.returned = GeminiError("Unable to access Gemini API")]
               /\ pc' = "reply"
          ELSE /\ gemini' = [gemini EXCEPT !.model = SelectedModel(built)]
               /\ pc' = "ask"
    /\ UNCHANGED <<user_input, chat_history, user_email, is_draft_request,
                   recipient_emails, drafts, llm_calls, tool_calls, posted,
                   tool_result, result, hash_order, extracted>>
    /\ UNCHANGED serviceVars

\* process_with_gemini up to the model call: the key check and the loop that
\* builds the model.
GeminiConfigure ==
    /\ pc = "http"
    /\ IF ~Truthy(gemini.api_key) \/ ~StartsWith(gemini.api_key, "AIza")
       THEN /\ gemini' = [gemini EXCEPT !.returned = GeminiError("Invalid API key format")]
            /\ pc' = "reply"
       ELSE \E built \in BuildOutcomes :
               IF SelectedModel(built) = PyNone
               THEN /\ gemini' = [gemini EXCEPT
                                     !.returned = GeminiError("Unable to access Gemini API")]
                    /\ pc' = "reply"
               ELSE /\ gemini' = [gemini EXCEPT !.model = SelectedModel(built)]
                    /\ pc' = "ask"
    /\ UNCHANGED <<user_input, chat_history, user_email, is_draft_request,
                   recipient_emails, drafts, llm_calls, tool_calls, posted,
                   tool_result, result, hash_order, extracted>>
    /\ UNCHANGED serviceVars

\* The one call of model.generate_content, the clean-up and json.loads, and
\* the branches that return without a tool call.
GeminiGenerate ==
    /\ pc = "ask"
    /\ \E outcome \in GeminiOutcomes :
          LET cleaned == CleanedText(outcome.text)
              doc == JsonLoads(cleaned)
          IN  /\ llm_calls' = Append(llm_calls,
                                     LlmCall("classification", outcome.kind,
                                             IF outcome.kind = "raise"
                                             THEN outcome.error ELSE outcome.text))
              /\ IF outcome.kind = "raise"
                 THEN /\ gemini' = [gemini EXCEPT !.returned = ApiErrorReturn(outcome.error)]
                      /\ pc' = "reply"
                      /\ drafts' = drafts
                 ELSE IF doc.type = "JSONDecodeError"
                 THEN /\ gemini' = [gemini EXCEPT !.returned = NotJsonReturn(cleaned)]
                      /\ pc' = "reply"
                      /\ drafts' = drafts
                 ELSE IF doc.type # "object"
                 THEN /\ gemini' = [gemini EXCEPT !.returned = OuterExceptReturn]
                      /\ pc' = "reply"
                      /\ drafts' = drafts
                 ELSE IF TakesCreateDrafts(doc.value)
                 THEN /\ gemini' = [gemini EXCEPT !.parsed = doc.value]
                      /\ pc' = "create"
                      /\ drafts' = doc.value["drafts"]
                 ELSE /\ gemini' = [gemini EXCEPT !.parsed = doc.value,
                                                  !.returned = NoToolReturn(doc.value)]
                      /\ pc' = "reply"
                      /\ drafts' = drafts
    /\ UNCHANGED <<user_input, chat_history, user_email, is_draft_request,
                   recipient_emails, tool_calls, posted, tool_result, result,
                   hash_order, extracted>>
    /\ UNCHANGED serviceVars

\* The create_drafts branch: the import of TOOL_FUNCTIONS, the call of
\* create_email_drafts and the dict returned.
GeminiCreateDrafts ==
    /\ pc = "create"
    /\ IF gemini.tools_is = "package"
       THEN /\ gemini' = [gemini EXCEPT !.returned = OuterExceptReturn]
            /\ UNCHANGED <<tool_calls, posted, tool_result>>
       ELSE \E outcome \in EndpointOutcomes(Len(ValidDrafts(user_email, drafts))) :
               LET td == CreateEmailDrafts(user_email, drafts, outcome)
               IN  /\ posted' = Posted(posted, user_email, drafts, outcome)
                   /\ tool_result' = td
                   /\ tool_calls' = Append(tool_calls,
                                           [user_email |-> user_email, drafts |-> drafts])
                   /\ gemini' = [gemini EXCEPT !.returned = CreatedReturn(gemini.parsed, td)]
    /\ pc' = "reply"
    /\ UNCHANGED <<user_input, chat_history, user_email, is_draft_request,
                   recipient_emails, drafts, llm_calls, result, hash_order, extracted>>
    /\ UNCHANGED serviceVars

\* invoke_spidey: the SpideyResponse built from what process_with_gemini
\* returned.
InvokeSpidey ==
    /\ pc = "reply"
    /\ result' = HandlerReturn(gemini.returned)
    /\ pc' = "http_done"
    /\ UNCHANGED <<user_input, chat_history, user_email, is_draft_request,
                   recipient_emails, drafts, llm_calls, tool_calls, posted,
                   tool_result, hash_order, extracted, gemini>>
    /\ UNCHANGED serviceVars

(***************************************************************************)
(* Stored credentials and API keys: oauth_storage, email_management and    *)
(* Spidey's firestore_keys share the collection google_oauth_credentials   *)
(***************************************************************************)

\* The variables of the agent and of the /invoke handler.
spideyVars == <<pc, user_input, chat_history, user_email, is_draft_request,
                recipient_emails, drafts, llm_calls, tool_calls, posted,
                tool_result, result, hash_order, extracted, gemini>>

\* cipher.encrypt(key.encode()).decode(): a Fernet token, which starts with
\* the version byte and the timestamp's leading zero bytes.
encrypt_key(key) == "gAAAAA" \o key

\* decrypt_value(encrypted_text): "" for an empty text, the plaintext of a
\* token, ValueError for anything else.
decrypt_value(encrypted_text) ==
    IF ~Truthy(encrypted_text) THEN [ok |-> TRUE, value |-> ""]
    ELSE IF StartsWith(encrypted_text, "gAAAAA")
         THEN [ok |-> TRUE, value |-> DropFirst(encrypted_text, 6)]
         ELSE [ok |-> FALSE, error |-> "Failed to decrypt"]

\* fetch_api_key reading the key field with a default instead of testing
\* that it is there.
fetch_api_key_with_default(docs, email, key_type) ==
    IF email \notin DOMAIN docs
    THEN [ok |-> FALSE, error |-> "User not found in database"]
    ELSE decrypt_value(Get(docs[email], "keys." \o key_type, ""))

\* fetch_api_key(user_email, key_type) over the collection docs: the
\* decrypted key, or the ValueError raised.
fetch_api_key(docs, email, key_type) ==
    IF email \notin DOMAIN docs
    THEN [ok |-> FALSE, error |-> "User not found in database"]
    ELSE IF ("keys." \o key_type) \notin DOMAIN docs[email]
         THEN [ok |-> FALSE, error |-> "API key type not configured"]
         ELSE decrypt_value(docs[email]["keys." \o key_type])

\* get_user_selected_key(user_email) over the collection docs: the selected
\* key type, or the ValueError raised.
get_user_selected_key(docs, email) ==
    IF email \notin DOMAIN docs
    THEN [ok |-> FALSE, error |-> "User not found in database"]
    ELSE LET selected_key == Get(docs[email], "current_selected_key", PyNone)
         IN  IF selected_key \in {PyNone, ""}
             THEN [ok |-> FALSE, error |-> "No API key selected"]
             ELSE IF selected_key \notin {"gemini_api_key", "deepseek_v3_key"}
                  THEN [ok |-> FALSE, error |-> "Invalid selected key type"]
                  ELSE [ok |-> TRUE, value |-> selected_key]

\* get_user_api_key(user_email) over the collection docs: the selected key
\* type first, then the key of that type.
get_user_api_key(docs, email) ==
    LET selected_key_type == get_user_selected_key(docs, email)
    IN  IF selected_key_type.ok
        THEN fetch_api_key(docs, email, selected_key_type.value)
        ELSE selected_key_type

\* The KeysPresenceResponse of GET /check-keys/{user_email} over the
\* collection docs: available_keys are the keys of the document's field
\* named keys.
check_keys_presence(docs, email) ==
    IF email \notin DOMAIN docs \/ "keys" \notin DOMAIN docs[email]
    THEN [available_keys |-> {}, current_selected_key |-> PyNone]
    ELSE [available_keys |-> DOMAIN docs[email]["keys"],
          current_selected_key |-> Get(docs[email], "current_selected_key", PyNone)]

\* POST /store-auth: doc_ref.set(oauth_data) replaces the document; a
\* Firestore failure is answered 500.
StoreAuth ==
    /\ pc = "keys"
    /\ \E email \in {"ann@x.co"}, oauth_token \in {"ya29.a"},
          refresh_token \in {PyNone, "1//r1"}, up \in BOOLEAN :
          LET oauth_data == IF refresh_token \notin {PyNone, ""}
                            THEN [oauth |-> oauth_token, refresh_token |-> refresh_token]
                            ELSE [oauth |-> oauth_token]
          IN  /\ db' = IF up THEN (email :> oauth_data) @@ db ELSE db
              /\ served' = [op |-> "store-auth", user_email |-> email,
                            refresh_token |-> refresh_token,
                            status |-> IF up THEN 200 ELSE 500]
    /\ UNCHANGED <<users, mailbox, now, race>>
    /\ UNCHANGED spideyVars

\* store_updated_credentials(user_email, access_token, refresh_token): the
\* same write; a failure is printed and None returned.
StoreUpdatedCredentials ==
    /\ pc = "keys"
    /\ \E email \in {"ann@x.co"}, access_token \in {"ya29.b"},
          refresh_token \in {PyNone, "1//r1"}, up \in BOOLEAN :
          LET oauth_data == IF refresh_token \notin {PyNone, ""}
                            THEN [oauth |-> access_token, refresh_token |-> refresh_token]
                            ELSE [oauth |-> access_token]
          IN  /\ db' = IF up THEN (email :> oauth_data) @@ db ELSE db
              /\ served' = [op |-> "store_updated_credentials", user_email |-> email,
                            refresh_token |-> refresh_token,
                            status |-> IF up THEN 200 ELSE 500]
    /\ UNCHANGED <<users, mailbox, now, race>>
    /\ UNCHANGED spideyVars

\* PUT /store-key: set(..., merge=True) of one top-level field whose name
\* is 'keys.' + key_type (set does not split a key at its dots).
StoreKey ==
    /\ pc = "keys"
    /\ \E email \in {"ann@x.co"}, key_type \in {"gemini_api_key", "api_key"},
          key_value \in {"AIzaKey", "sk-or-key"}, up \in BOOLEAN :
          /\ db' = IF up
                   THEN (email :> ((("keys." \o key_type) :> encrypt_key(key_value))
                                      @@ Get(db, email, <<>>))) @@ db
                   ELSE db
          /\ served' = [op |-> "store-key", user_email |-> email, key_type |-> key_type,
                        key_value |-> key_value, status |-> IF up THEN 200 ELSE 500]
    /\ UNCHANGED <<users, mailbox, now, race>>
    /\ UNCHANGED spideyVars

\* PUT /set-current-key without the test against allowed_keys.
SetCurrentKeyUnvalidated ==
    /\ pc = "keys"
    /\ \E email \in {"ann@x.co"}, up \in BOOLEAN,
          current_selected_key \in {"gemini_api_key", "deepseek_v3_key", "invalid_key_type"} :
          /\ db' = IF up
                   THEN (email :> (("current_selected_key" :> current_selected_key)
                                      @@ Get(db, email, <<>>))) @@ db
                   ELSE db
          /\ served' = [op |-> "set-current-key", user_email |-> email,
                        key_type |-> current_selected_key,
                        status |-> IF up THEN 200 ELSE 500]
    /\ UNCHANGED <<users, mailbox, now, race>>
    /\ UNCHANGED spideyVars

\* PUT /set-current-key/{user_email}: 400 for a key type outside
\* allowed_keys, else a merge of current_selected_key.
SetCurrentKey ==
    /\ pc = "keys"
    /\ \E email \in {"ann@x.co"}, up \in BOOLEAN,
          current_selected_key \in {"gemini_api_key", "deepseek_v3_key", "invalid_key_type"} :
          LET allowed == current_selected_key \in {"gemini_api_key", "deepseek_v3_key"}
          IN  /\ db' = IF allowed /\ up
                       THEN (email :> (("current_selected_key" :> current_selected_key)
                                          @@ Get(db, email, <<>>))) @@ db
                       ELSE db
              /\ served' = [op |-> "set-current-key", user_email |-> email,
                            key_type |-> current_selected_key,
                            status |-> IF ~allowed THEN 400 ELSE IF up THEN 200 ELSE 500]
    /\ UNCHANGED <<users, mailbox, now, race>>
    /\ UNCHANGED spideyVars

\* GET /check-keys/{user_email}
CheckKeys ==
    /\ pc = "keys"
    /\ \E email \in {"ann@x.co", "bob@x.co"} :
          served' = [op |-> "check-keys", user_email |-> email, status |-> 200,
                     body |-> check_keys_presence(db, email)]
    /\ UNCHANGED <<db, users, mailbox, now, race>>
    /\ UNCHANGED spideyVars

\* A call of fetch_api_key(user_email, key_type).
FetchApiKey ==
    /\ pc = "keys"
    /\ \E email \in {"ann@x.co", "bob@x.co"},
          key_type \in {"gemini_api_key", "deepseek_v3_key", "api_key"} :
          served' = [op |-> "fetch_api_key", user_email |-> email,
                     key_type |-> key_type, body |-> fetch_api_key(db, email, key_type)]
    /\ UNCHANGED <<db, users, mailbox, now, race>>
    /\ UNCHANGED spideyVars

\* A call of get_user_api_key(user_email).
GetUserApiKey ==
    /\ pc = "keys"
    /\ \E email \in {"ann@x.co", "bob@x.co"} :
          served' = [op |-> "get_user_api_key", user_email |-> email,
                     body |-> get_user_api_key(db, email)]
    /\ UNCHANGED <<db, users, mailbox, now, race>>
    /\ UNCHANGED spideyVars

(***************************************************************************)
(* gmail_watch_cron: POST /renew-expired-watches                           *)
(***************************************************************************)

\* renew_gmail_watch(user_email), given what users().watch() answers when it
\* is called: the value returned, and the 'gmail-watch' written if any.
renew_gmail_watch(email, response) ==
    IF email \notin DOMAIN db \/ ~Truthy(Get(Get(db, email, <<>>), "oauth", ""))
    THEN [returned |-> FALSE, written |-> <<>>]
    ELSE IF email \notin DOMAIN users
    THEN [returned |-> FALSE, written |-> <<>>]
    ELSE LET existing_watch == users[email]["gmail-watch"]
         IN  IF "gmail-watch" \in DOMAIN users[email] /\ existing_watch.enabled
                   /\ existing_watch.expiry > now
             THEN [returned |-> TRUE, written |-> <<>>]
             ELSE IF ~response.ok
                  THEN [returned |-> FALSE, written |-> <<>>]
                  ELSE [returned |-> TRUE,
                        written |-> <<[enabled |-> TRUE,
                                       history_id |-> response.historyId,
                                       expiry |-> response.expiration \div 1000]>>]

\* The handler: every user document whose watch is enabled and expires
\* within one day is handed to renew_gmail_watch; gmail[u] is what
\* users().watch() answers for u.
RenewExpiredWatches ==
    /\ pc = "cron"
    /\ \E gmail \in [DOMAIN users ->
                       {[ok |-> FALSE],
                        [ok |-> TRUE, historyId |-> "h9",
                         expiration |-> (now + 7 * 24 * 60 * 60) * 1000 + 321]}] :
       LET one_day_from_now == now + (24 * 60 * 60)
           ExpiringSoon(u) ==
               LET gmail_watch == users[u]["gmail-watch"]
               IN  /\ "gmail-watch" \in DOMAIN users[u]
                   /\ gmail_watch.enabled
                   /\ gmail_watch.expiry > 0
                   /\ gmail_watch.expiry <= one_day_from_now
           renewed(u) == renew_gmail_watch(u, gmail[u])
       IN  /\ users' = [u \in DOMAIN users |->
                          IF ExpiringSoon(u) /\ renewed(u).written # <<>>
                          THEN ("gmail-watch" :> renewed(u).written[1]) @@ users[u]
                          ELSE users[u]]
           /\ served' = [op |-> "renew-expired-watches", status |-> 200,
                         checked_users |-> Cardinality(DOMAIN users),
                         renewed_watches |->
                             Cardinality({u \in DOMAIN users :
                                             ExpiringSoon(u) /\ renewed(u).returned}),
                         gmail |-> gmail]
    /\ UNCHANGED <<db, mailbox, now, race>>
    /\ UNCHANGED spideyVars

(***************************************************************************)
(* email_management: POST /gmail-webhook                                   *)
(***************************************************************************)

MaxHistory == 2      \* messagesAdded entries in one history listing
MaxDeliveries == 2   \* notifications delivered

\* process_gmail_webhook_notification(user_email, history_id), given the
\* messagesAdded entries of the history listing (or its failure) and, for
\* each entry, whether messages().get() answers: the number returned, the
\* messages written and whether lastSyncTimestamp is written.
process_gmail_webhook_notification(email, listing, fetched) ==
    IF email \notin DOMAIN db \/ ~Truthy(Get(Get(db, email, <<>>), "oauth", ""))
          \/ ~listing.ok
    THEN [returned |-> 0, stored |-> <<>>, synced |-> FALSE]
    ELSE LET existing == Get(mailbox, email, <<>>)
             existing_message_ids == DOMAIN existing
             existing_thread_ids ==
                 {existing[m] : m \in {x \in DOMAIN existing : Truthy(existing[x])}}
             history == listing.history
             Stores(i) == /\ history[i].id \notin existing_message_ids
                          /\ Truthy(history[i].threadId)
                          /\ history[i].threadId \in existing_thread_ids
                          /\ fetched[i]
             kept == {i \in 1..Len(history) : Stores(i)}
             new_emails_count == Cardinality(kept)
             stored == [m \in {history[i].id : i \in kept} |->
                          history[CHOOSE i \in kept : history[i].id = m].threadId]
         IN  IF new_emails_count > 0 /\ email \notin DOMAIN users
             THEN [returned |-> 0, stored |-> stored, synced |-> FALSE]
             ELSE [returned |-> new_emails_count, stored |-> stored,
                   synced |-> new_emails_count > 0]

\* The handler: the notification's data decoded, then the processing above.
\* The body posted has no data, data that is not base64 of JSON, JSON
\* without the two fields, or a notification for ann@x.co; the history
\* listing raises or has up to MaxHistory messagesAdded entries, the same
\* message possibly in more than one record.
GmailWebhook ==
    /\ pc = "webhook"
    /\ now <= MaxDeliveries
    /\ now' = now + 1
    /\ \E message \in
             {[data |-> ""],
              [data |-> "%%", decodes |-> FALSE],
              [data |-> "e30=", decodes |-> TRUE,
               emailAddress |-> PyNone, historyId |-> PyNone],
              [data |-> "eyJlbWFpbEFkZHJlc3MiOiAi", decodes |-> TRUE,
               emailAddress |-> "ann@x.co", historyId |-> "h1"]},
          listing \in
             {[ok |-> FALSE, history |-> <<>>]}
             \cup {[ok |-> TRUE, history |-> h] :
                     h \in UNION {[1..n -> {[id |-> "m1", threadId |-> "t1"],
                                            [id |-> "m2", threadId |-> "t1"],
                                            [id |-> "m3", threadId |-> "t2"],
                                            [id |-> "m4", threadId |-> "t3"]}] :
                                    n \in 0..MaxHistory}} :
       \E fetched \in [1..Len(listing.history) -> BOOLEAN] :
       IF ~Truthy(message.data)
       THEN /\ served' = [op |-> "gmail-webhook", status |-> 200,
                          body |-> [status |-> "no_data"]]
            /\ UNCHANGED <<mailbox, users>>
       ELSE IF ~message.decodes
       THEN /\ served' = [op |-> "gmail-webhook", status |-> 200,
                          body |-> [status |-> "decode_error"]]
            /\ UNCHANGED <<mailbox, users>>
       ELSE IF message.emailAddress \in {PyNone, ""} \/ message.historyId \in {PyNone, ""}
       THEN /\ served' = [op |-> "gmail-webhook", status |-> 200,
                          body |-> [status |-> "missing_fields"]]
            /\ UNCHANGED <<mailbox, users>>
       ELSE LET email == message.emailAddress
                done == process_gmail_webhook_notification(email, listing, fetched)
            IN  /\ mailbox' = IF DOMAIN done.stored = {} THEN mailbox
                              ELSE (email :> (done.stored @@ Get(mailbox, email, <<>>)))
                                       @@ mailbox
                /\ users' = IF done.synced
                            THEN (email :> (("lastSyncTimestamp" :> now')
                                               @@ users[email])) @@ users
                            ELSE users
                /\ served' = [op |-> "gmail-webhook", status |-> 200,
                              body |-> [status |-> "processed", user_email |-> email,
                                        history_id |-> message.historyId,
                                        emails_synced |-> done.returned]]
    /\ UNCHANGED <<db, race>>
    /\ UNCHANGED spideyVars

(***************************************************************************)
(* Concurrent requests to POST /invoke: process_with_gemini runs in the    *)
(* threads of the default executor; genai.configure sets the key of the    *)
(* process                                                                 *)
(***************************************************************************)

MaxRequests == 3     \* requests in flight

\* Lines 155-182 in the thread of request r: a key of the wrong format
\* returns at once, any other becomes the configured key of the process.
ThreadConfigure ==
    /\ pc = "pool"
    /\ \E r \in DOMAIN race.threads :
          /\ race.threads[r].at = "queued"
          /\ LET api_key == race.threads[r].api_key
             IN  IF ~Truthy(api_key) \/ ~StartsWith(api_key, "AIza")
                 THEN race' = [race EXCEPT !.threads[r].at = "done"]
                 ELSE race' = [race EXCEPT !.configured = api_key,
                                           !.threads[r].at = "configured"]
    /\ UNCHANGED <<db, users, mailbox, now, served>>
    /\ UNCHANGED spideyVars

\* model.generate_content(enhanced_prompt) in the thread of request r: the
\* call is made with the key configured for the process at that moment.
ThreadGenerate ==
    /\ pc = "pool"
    /\ \E r \in DOMAIN race.threads :
          /\ race.threads[r].at = "configured"
          /\ race' = [race EXCEPT !.threads[r].at = "done",
                                  !.threads[r].used = race.configured]
    /\ UNCHANGED <<db, users, mailbox, now, served>>
    /\ UNCHANGED spideyVars

(***************************************************************************)
(* Specifications                                                          *)
(***************************************************************************)

\* One call of SpideyAgent.invoke.
InitAgent ==
    /\ pc = "start"
    /\ user_input \in UserTurns
    /\ chat_history \in Histories
    /\ user_email \in UserEmails
    /\ drafts = <<>>
    /\ hash_order = <<>>
    /\ gemini = NoGemini
    /\ Fresh
    /\ NoServices

NextAgent == AgentClassify \/ GenerateDraft \/ DispatchDrafts \/ Converse

SpecAgent == InitAgent /\ [][NextAgent]_vars

\* One call of a dispatch operation on a batch.
InitDispatch ==
    /\ pc = "batch"
    /\ user_input = ""
    /\ chat_history = ""
    /\ user_email \in UserEmails
    /\ drafts \in Batches
    /\ hash_order = <<>>
    /\ gemini = NoGemini
    /\ Fresh
    /\ NoServices

NextDispatch == CallDraftTool \/ CallCreateEmailDrafts

SpecDispatch == InitDispatch /\ [][NextDispatch]_vars

\* Calls of the extraction functions on one text.
InitExtract ==
    /\ pc = "extract"
    /\ user_input \in UserTurns
    /\ chat_history = ""
    /\ user_email \in UserEmails
    /\ drafts = <<>>
    /\ hash_order \in Perms(Elems(HelperFindAll(user_input)))
    /\ gemini = NoGemini
    /\ Fresh
    /\ NoServices

NextExtract == HelperExtract \/ AgentExtract

SpecExtract == InitExtract /\ [][NextExtract]_vars

\* One request to POST /invoke.
InitGemini ==
    /\ pc = "http"
    /\ user_input \in Tasks
    /\ chat_history = ""
    /\ user_email \in UserEmails
    /\ drafts = <<>>
    /\ hash_order = <<>>
    /\ gemini \in {[NoGemini EXCEPT !.api_key = k, !.tools_is = t] :
                      k \in ApiKeys, t \in ToolsModules}
    /\ Fresh
    /\ NoServices

NextGemini == GeminiConfigure \/ GeminiGenerate \/ GeminiCreateDrafts \/ InvokeSpidey

SpecGemini == InitGemini /\ [][NextGemini]_vars

\* The storage-backed services. pc names the service the scenario is about:
\* the key and credential store from an empty collection, the renewal job
\* over stored watches, the webhook over a stored mailbox.
InitBackend ==
    /\ pc \in {"keys", "cron", "webhook"}
    /\ user_input = ""
    /\ chat_history = ""
    /\ user_email = ""
    /\ drafts = <<>>
    /\ hash_order = <<>>
    /\ gemini = NoGemini
    /\ Fresh
    /\ served = <<>>
    /\ race = <<>>
    /\ pc = "keys" => (db = <<>> /\ users = <<>> /\ mailbox = <<>> /\ now = 0)
    /\ pc = "cron" =>
          /\ now = 2 * 24 * 60 * 60
          /\ mailbox = <<>>
          /\ db \in UNION {[S -> {[oauth |-> "ya29.a"], [oauth |-> ""]}] :
                              S \in SUBSET {"ann@x.co", "bob@x.co"}}
          /\ users \in [{"ann@x.co", "bob@x.co"} ->
                 {[lastSyncTimestamp |-> 0]}
                 \cup {("gmail-watch" :> [enabled |-> e, history_id |-> "h1", expiry |-> x])
                          @@ [lastSyncTimestamp |-> 0] :
                        e \in BOOLEAN,
                        x \in {0, now - 1, now + 3600, now + 24 * 60 * 60,
                               now + 24 * 60 * 60 + 1}}]
    /\ pc = "webhook" =>
          /\ now = 1
          /\ db \in {<<>>, "ann@x.co" :> [oauth |-> "ya29.a"]}
          /\ users = "ann@x.co" :> [lastSyncTimestamp |-> 0]
          /\ mailbox \in {"ann@x.co" :> stored :
                            stored \in {"m1" :> "t1", "m3" :> "t2",
                                        ("m1" :> "t1") @@ ("m3" :> "t2")}}

NextBackend ==
    \/ StoreAuth
    \/ StoreUpdatedCredentials
    \/ StoreKey
    \/ SetCurrentKey
    \/ CheckKeys
    \/ FetchApiKey
    \/ GetUserApiKey
    \/ RenewExpiredWatches
    \/ GmailWebhook

SpecBackend == InitBackend /\ [][NextBackend]_vars

\* MaxRequests requests waiting for a thread, each with the key of its body.
InitRace ==
    /\ pc = "pool"
    /\ user_input = ""
    /\ chat_history = ""
    /\ user_email = ""
    /\ drafts = <<>>
    /\ hash_order = <<>>
    /\ gemini = NoGemini
    /\ Fresh
    /\ db = <<>> /\ users = <<>> /\ mailbox = <<>> /\ now = 0 /\ served = <<>>
    /\ race \in {[configured |-> PyNone,
                   threads |-> [r \in 1..MaxRequests |->
                                  [at |-> "queued", api_key |-> keys[r], used |-> PyNone]]] :
                  keys \in [1..MaxRequests -> {"", "AIzaKeyA", "AIzaKeyB"}]}

NextRace == ThreadConfigure \/ ThreadGenerate

SpecRace == InitRace /\ [][NextRace]_vars

Init == InitAgent \/ InitDispatch \/ InitExtract \/ InitGemini \/ InitBackend \/ InitRace
Next == NextAgent \/ NextDispatch \/ NextExtract \/ NextGemini \/ NextBackend \/ NextRace
Spec == Init /\ [][Next]_vars
(***************************************************************************)
(* Properties                                                              *)
(***************************************************************************)

\* The contents of the user turns of the request, the current one last.
UserTurnTexts ==
    LET msgs == BuildMessages(chat_history, user_input)
    IN  {msgs[i].content : i \in {k \in 1..Len(msgs) : msgs[k].role = "human"}}

\* The contents of the user turns before the current one.
EarlierTurnTexts ==
    LET msgs == IF Truthy(chat_history)
                THEN HistoryMessages(SplitLines(chat_history))
                ELSE <<>>
    IN  {msgs[i].content : i \in {k \in 1..Len(msgs) : msgs[k].role = "human"}}

\* A turn that asks for an email to be created, in the agent's vocabulary.
AsksCreation(t) ==
    /\ AnyKeywordIn(draft_keywords, Lower(t))
    /\ AnyKeywordIn(email_keywords, Lower(t))

LocalOf(a) == BeforeFirst(a, "@")
DomainOf(a) == AfterFirst(a, "@")

\* Two addresses of one mailbox: the same local part, and the same domain
\* when case is ignored.
SameMailbox(a, b) ==
    /\ Contains(a, "@") /\ Contains(b, "@")
    /\ LocalOf(a) = LocalOf(b)
    /\ Lower(DomainOf(a)) = Lower(DomainOf(b))

\* The to_email of every draft handed to the tool, over all calls.
DispatchedTo ==
    UNION {{tool_calls[c].drafts[i].fields["to_email"] :
               i \in 1..Len(tool_calls[c].drafts)} : c \in 1..Len(tool_calls)}

\* C1: the recipient list computed by the agent never contains an address
\* equal to the known sender's address, the domain compared without regard
\* to case and the local part with it.
C1_SenderNeverRecipient ==
    Truthy(user_email) =>
        \A i \in 1..Len(recipient_emails) :
            ~SameMailbox(recipient_emails[i], user_email)

NoDuplicates(seq) == \A i, j \in 1..Len(seq) : seq[i] = seq[j] => i = j

FirstIndex(seq, e) == CHOOSE i \in 1..Len(seq) : seq[i] = e /\ \A k \in 1..(i - 1) : seq[k] # e

\* out lists elements of found in the order of their first occurrence there.
InFirstSeenOrder(out, found) ==
    /\ Elems(out) \subseteq Elems(found)
    /\ \A i, j \in 1..Len(out) :
          i < j => FirstIndex(found, out[i]) < FirstIndex(found, out[j])

\* C2: each extraction function returns every address at most once, in the
\* order of first occurrence in the scanned text, and returns the same
\* sequence when run again on the same text (the agent's step and
\* helpers.extract_email_addresses).
C2_ExtractionOrderedAndRepeatable ==
    \A i \in 1..Len(extracted) :
        /\ NoDuplicates(extracted[i].out)
        /\ InFirstSeenOrder(extracted[i].out,
                            IF extracted[i].by = "agent"
                            THEN FindAll(user_input)
                            ELSE HelperFindAll(user_input))
        /\ \A j \in 1..Len(extracted) :
              extracted[j].by = extracted[i].by => extracted[j].out = extracted[i].out

\* The addresses written in each text a current turn can be, and whether the
\* text holds one of the agent's confirmation words.
AddressesOfTurn == [t \in UserTurns |-> FindAll(t)]
ConfirmsInTurn == [t \in UserTurns |-> AnyKeywordIn(confirmation_keywords, Lower(t))]

\* C3: the recipients are the addresses of the most recent user turn when
\* that turn holds any address, those of all user turns only when it holds
\* none, in both cases without the sender's address.
C3_LastTurnPreferred ==
    (pc # "start" /\ is_draft_request /\ Truthy(user_email)) =>
        LET inLast == Elems(AddressesOfTurn[user_input])
            inAll == UNION {Elems(FindAll(t)) : t \in UserTurnTexts}
        IN  Elems(recipient_emails)
                = (IF inLast # {} THEN inLast ELSE inAll) \ {user_email}

\* C3 (witness): the current turn held no address and the recipients came
\* from an earlier turn.
C3_Witness_FallBackToTranscript ==
    /\ pc = "done"
    /\ FindAll(user_input) = <<>>
    /\ recipient_emails # <<>>
    /\ tool_calls # <<>>

\* The addresses other than the sender's in the user turns.
NonSenderAddresses ==
    (UNION {Elems(FindAll(t)) : t \in UserTurnTexts}) \ {user_email}

\* C4: a conversation with an explicit creation request and at least one
\* address other than the sender's in its user turns, the sender known,
\* takes the create-drafts path and dispatches to exactly those addresses.
C4_CreationRequestDispatches ==
    (/\ pc = "done"
     /\ Truthy(user_email)
     /\ \E t \in UserTurnTexts : AsksCreation(t)
     /\ NonSenderAddresses # {})
        => (Len(tool_calls) = 1 /\ DispatchedTo = NonSenderAddresses)

\* A request that is a question or asks for advice ("How do I ...",
\* "What are good ...").
IsPureQuestion(t) ==
    \/ StartsWith(Lower(t), "how do i")
    \/ StartsWith(Lower(t), "what are")

\* C5: for a request that is a pure question, whatever words and addresses
\* it contains, the draft-creation tool is never called and no draft is
\* generated: the request is answered directly.
C5_QuestionAnsweredDirectly ==
    IsPureQuestion(user_input) =>
        /\ tool_calls = <<>>
        /\ drafts = <<>>
        /\ (pc = "done" => result.response.kind # "successfully_created")

\* C6: a creation request with no address in any user turn makes no
\* dispatch call and returns action_taken = "need_info" (not an error).
C6_NoRecipientIsNeedInfo ==
    (/\ pc = "done"
     /\ is_draft_request
     /\ UNION {Elems(FindAll(t)) : t \in UserTurnTexts} = {})
        => (tool_calls = <<>> /\ result.action_taken = "need_info")

\* A turn that is only a confirmation.
IsConfirmationOnly(t) == Lower(t) \in {"yes", "ok", "sure", "do it"}

\* The addresses other than the sender's in the earlier user turns that ask
\* for an email to be created.
EarlierRequestRecipients ==
    (UNION {Elems(FindAll(t)) : t \in {u \in EarlierTurnTexts : AsksCreation(u)}})
        \ {user_email}

FailsFieldValidation(draft) ==
    \/ ~draft.is_dict
    \/ \E f \in Elems(required_fields) :
          f \notin DOMAIN draft.fields \/ Strip(draft.fields[f]) = ""

FailedCount == Cardinality({i \in 1..Len(drafts) : FailsFieldValidation(drafts[i])})

\* The endpoint was called, answered 200 and created every draft sent.
EndpointCreatedAll ==
    /\ posted # <<>>
    /\ posted[1].answer.kind = "ok"
    /\ posted[1].answer.drafts_created = Len(posted[1].body.drafts)

\* The result's count of accepted identifiers and of rejected items: the
\* skipped count of the tool's message, none in the dict of tools.py.
AcceptedReported == Len(tool_result.draft_ids)
RejectedReported == IF pc = "impl_done" THEN tool_result.skipped ELSE 0

\* C8: for a batch of N drafts of which K fail field validation, K items are
\* reported as rejected and accepted + rejected = N (stated for the calls the
\* endpoint answers by creating every draft it was sent).
C8_EveryItemAccounted ==
    (pc \in {"impl_done", "tools_done"} /\ EndpointCreatedAll) =>
        /\ RejectedReported = FailedCount
        /\ AcceptedReported + RejectedReported = Len(drafts)

\* C9: no draft with a recipient, subject or body that is empty once trimmed
\* is part of a body posted to /create-multi-draft.
C9_NoBlankDraftPosted ==
    \A p \in 1..Len(posted) :
        \A i \in 1..Len(posted[p].body.drafts) :
            LET d == posted[p].body.drafts[i]
            IN  Strip(d.to_email) # "" /\ Strip(d.subject) # "" /\ Strip(d.body) # ""

\* C10: when the batch call fails (timeout, connection error, status other
\* than 200) the tool reports the failure with its reason and the response
\* invoke returns does not say the drafts were created.
C10_FailedBatchNotReportedCreated ==
    (/\ pc = "done"
     /\ posted # <<>>
     /\ posted[1].answer.kind \in {"timeout", "connection_error", "http_error"})
        => /\ tool_result.kind \in {"timed_out", "could_not_connect", "api_call_failed"}
           /\ result.response.kind # "successfully_created"

\* The endpoint answered 200 with a count other than the number of drafts it
\* was sent.
EndpointCountDiffers ==
    /\ posted # <<>>
    /\ posted[1].answer.kind = "ok"
    /\ posted[1].answer.drafts_created # Len(posted[1].body.drafts)

\* C11: when the endpoint answers 200 with a count of created drafts other
\* than the number requested, the count in the response invoke returns is the
\* endpoint's count, not the requested one.
C11_EndpointCountShown ==
    (pc = "done" /\ EndpointCountDiffers) =>
        /\ result.response.kind = "successfully_created"
        /\ result.response.count = posted[1].answer.drafts_created

\* The name shown for a recipient: the local part of the address in title case.
DisplayName(a) == Title(LocalOf(a))

\* A body made of a greeting to the recipient and a sign-off.
IsGreetingSignOff(body, a) ==
    /\ body # ""
    /\ StartsWith(body, "Hi " \o DisplayName(a) \o ",")
    /\ Contains(body, "Best regards")

\* The content calls of the request are the first calls made: call i is the
\* one for recipient i and draft i.
ContentCalls == {i \in 1..Len(llm_calls) : llm_calls[i].site = "content"}

\* C12: when the content call for a recipient raises, the draft for that
\* recipient has the subject "Message for {Name}", Name the title-cased local
\* part of the address, and a non-empty greeting and sign-off body.
C12_FailedCallUsesTemplate ==
    \A i \in ContentCalls :
        llm_calls[i].kind = "raise" =>
            /\ drafts[i].fields["subject"] = "Message for " \o DisplayName(recipient_emails[i])
            /\ IsGreetingSignOff(drafts[i].fields["body"], recipient_emails[i])

\* C12 (witness): a content call raised and the template draft for
\* sam@x.co was handed to the tool.
C12_Witness_TemplateDispatched ==
    /\ pc = "done"
    /\ \E i \in ContentCalls :
          /\ llm_calls[i].kind = "raise"
          /\ recipient_emails[i] = "sam@x.co"
          /\ tool_calls # <<>>
          /\ tool_calls[1].drafts[i].fields["subject"] = "Message for Sam"

\* The text a content call returned holds both markers.
HasBothFields(text) == Contains(text, "SUBJECT:") /\ Contains(text, "BODY:")

\* C13: when the content call returns text that does not hold both a SUBJECT
\* and a BODY field, the draft is the template of a failed call: subject
\* "Message for {Name}" and the greeting and sign-off body.
C13_UnparsedOutputUsesTemplate ==
    \A i \in ContentCalls :
        (llm_calls[i].kind = "text" /\ ~HasBothFields(llm_calls[i].text)) =>
            /\ drafts[i].fields["subject"] = "Message for " \o DisplayName(recipient_emails[i])
            /\ IsGreetingSignOff(drafts[i].fields["body"], recipient_emails[i])

\* The recipients of the drafts of a batch, in order.
BatchRecipients(batch) == [i \in 1..Len(batch) |-> batch[i].fields["to_email"]]

\* C14: whichever content calls raise, the drafts generated so far are those
\* of the first recipients in extraction order, the batch handed to the tool
\* holds exactly one draft per recipient in that order, and a request with
\* recipients always reaches the tool call.
C14_OneDraftPerRecipientInOrder ==
    /\ Len(drafts) <= Len(recipient_emails)
    /\ BatchRecipients(drafts) = SubSeq(recipient_emails, 1, Len(drafts))
    /\ \A c \in 1..Len(tool_calls) :
          BatchRecipients(tool_calls[c].drafts) = recipient_emails
    /\ (pc = "done" /\ recipient_emails # <<>>) => Len(tool_calls) = 1

\* C14 (witness): two recipients, the call for the first raised, the call
\* for the second returned, and both drafts were handed to the tool.
C14_Witness_FirstCallFailed ==
    /\ pc = "done"
    /\ Len(recipient_emails) = 2
    /\ Len(llm_calls) = 2
    /\ llm_calls[1].kind = "raise"
    /\ llm_calls[2].kind = "text"
    /\ Len(tool_calls) = 1
    /\ Len(tool_calls[1].drafts) = 2

\* C15: every draft the generation step appends has a non-empty subject and
\* a non-empty body, whatever the model returned.
C15_GeneratedDraftsNonEmpty ==
    \A i \in ContentCalls :
        /\ drafts[i].fields["subject"] # ""
        /\ drafts[i].fields["body"] # ""

\* The to_email of every draft in a body posted to /create-multi-draft.
PostedTo ==
    UNION {{posted[p].body.drafts[i].to_email : i \in 1..Len(posted[p].body.drafts)} :
              p \in 1..Len(posted)}

\* C16: no draft posted to /create-multi-draft has the sender's address as
\* its recipient, whether the drafts came from the agent's extraction or
\* from the JSON of the model in process_with_gemini.
C16_SenderNeverPosted ==
    Truthy(user_email) => user_email \notin PostedTo

\* A request has been answered: SpideyAgent.invoke returned, or the handler
\* of POST /invoke did.
Answered == pc \in {"done", "http_done"}

ActionVocabulary == {"direct_response", "need_info", "tool_execution", "error"}

\* C17: every response of SpideyAgent.invoke and of the /invoke handler
\* carries one action_taken value, and it is one of direct_response,
\* need_info, tool_execution and error.
C17_ActionTakenInVocabulary ==
    Answered => result.action_taken \in ActionVocabulary

\* C18: SpideyAgent.invoke reports action_taken = "tool_execution" exactly
\* when the draft-creation tool was called during the request.
C18_ToolExecutionIffToolCalled ==
    pc = "done" => (result.action_taken = "tool_execution" <=> tool_calls # <<>>)

\* C19: whatever fails (model call, tool call, graph step), the request is
\* answered with a response object that holds success, a message and an
\* action_taken value.
C19_AlwaysWellFormedResponse ==
    /\ pc = "done" =>
          /\ result.success \in BOOLEAN
          /\ result.response.kind # "none"
          /\ result.action_taken \notin {PyNone, "none"}
    /\ pc = "http_done" =>
          /\ result.success \in BOOLEAN
          /\ result.message # PyNone
          /\ result.action_taken # PyNone

\* A call of the model that failed transiently: the quota or rate limit was
\* hit, or the service answered 5xx.
IsTransientFailure(call) ==
    \/ call.site = "chat" /\ call.kind = "quota"
    \/ /\ call.site = "classification"
       /\ call.kind = "raise"
       /\ (Contains(Lower(call.text), "quota") \/ Contains(call.text, "503"))

\* C20: a classification or conversational call that fails transiently is
\* followed by exactly one more call from the same call site (the retry
\* against the secondary model), and no call site calls more than twice.
C20_TransientFailureRetriedOnce ==
    Answered =>
        /\ Len(llm_calls) >= 1 /\ IsTransientFailure(llm_calls[1]) =>
              /\ Len(llm_calls) = 2
              /\ llm_calls[2].site = llm_calls[1].site
        /\ \A site \in {"chat", "classification"} :
              Cardinality({i \in 1..Len(llm_calls) : llm_calls[i].site = site}) <= 2

\* The text of the classification call of the request, when it returned one.
ClassificationReturned ==
    /\ llm_calls # <<>>
    /\ llm_calls[1].site = "classification"
    /\ llm_calls[1].kind = "text"

\* The classification text does not parse into one of the three variants:
\* it is not JSON, not a JSON object, or an object whose action is none of
\* create_drafts, provide_guidance and need_info.
ClassificationUnusable ==
    /\ ClassificationReturned
    /\ LET doc == JsonLoads(CleanedText(llm_calls[1].text))
       IN  \/ doc.type # "object"
           \/ Get(doc.value, "action", PyNone)
                  \notin {"create_drafts", "provide_guidance", "need_info"}

\* C21: when the classification output is not JSON or names none of the
\* three actions, process_with_gemini returns a need-more-information result
\* with a clarifying question, and the response of /invoke is not a guidance
\* answer and has a message.
C21_UnusableClassificationAsksForInfo ==
    (pc = "http_done" /\ ClassificationUnusable) =>
        /\ Get(gemini.returned, "action_taken", PyNone) \in {"need_info", "clarification_needed"}
        /\ Get(gemini.returned, "action", PyNone) # "provide_guidance"
        /\ Get(gemini.returned, "questions", <<>>) # <<>>
        /\ result.message # ""

\* The key of the request fails the format check: empty, or not starting
\* with "AIza".
KeyFormatInvalid == gemini.api_key = "" \/ ~StartsWith(gemini.api_key, "AIza")

\* The provider refused the key on the call.
KeyRefusedByProvider ==
    /\ llm_calls # <<>>
    /\ llm_calls[1].kind = "raise"
    /\ Contains(llm_calls[1].text, "API_KEY_INVALID")

\* C22: a request whose key is missing or fails the format check makes no
\* model call and no dispatch call and ends with the error outcome and a
\* message for the user; a key the provider refuses ends the same way after
\* the one call that was refused.
C22_InvalidKeyEndsRequest ==
    /\ (pc # "http" /\ pc # "http_done" /\ pc # "reply") => ~KeyFormatInvalid
    /\ KeyFormatInvalid => (llm_calls = <<>> /\ tool_calls = <<>> /\ posted = <<>>)
    /\ KeyRefusedByProvider => (Len(llm_calls) = 1 /\ tool_calls = <<>> /\ posted = <<>>)
    /\ (pc = "http_done" /\ (KeyFormatInvalid \/ KeyRefusedByProvider)) =>
          /\ result.action_taken = "error"
          /\ result.message \notin {"", PyNone}

\* C22 (witness): a request with the key of another provider was answered
\* with the error outcome.
C22_Witness_ForeignKeyRefused ==
    /\ pc = "http_done"
    /\ gemini.api_key = "sk-or-key"
    /\ result.action_taken = "error"

\* C29: the /invoke handler answers success = false when the outcome of the
\* processing is an error, and success = true for an answer, a question or
\* created drafts.
C29_ErrorOutcomeIsNotSuccess ==
    pc = "http_done" =>
        (result.success <=> Get(gemini.returned, "action_taken", PyNone) \in
                               {"provide_guidance", "need_info", "clarification_needed",
                                "Created email drafts"})

\* The key types a selection may name.
AllowedKeyTypes == {"gemini_api_key", "deepseek_v3_key"}

\* The three lookups answer with an error (no key) for email over docs
\* whenever the user is unknown, the key type is not stored, or nothing
\* valid is selected; the unknown user's error is its own.
LookupsRefuse(docs, email) ==
    LET NotFound(r) == ~r.ok /\ r.error = "User not found in database"
        Missing(r) == ~r.ok /\ r.error # "User not found in database"
        Stored(kt) == email \in DOMAIN docs /\ ("keys." \o kt) \in DOMAIN docs[email]
        selected == Get(Get(docs, email, <<>>), "current_selected_key", PyNone)
    IN  /\ email \notin DOMAIN docs =>
              /\ NotFound(get_user_selected_key(docs, email))
              /\ NotFound(get_user_api_key(docs, email))
              /\ \A kt \in AllowedKeyTypes \cup {"api_key"} :
                    NotFound(fetch_api_key(docs, email, kt))
        /\ email \in DOMAIN docs =>
              /\ \A kt \in AllowedKeyTypes \cup {"api_key"} :
                    ~Stored(kt) => Missing(fetch_api_key(docs, email, kt))
              /\ selected \notin AllowedKeyTypes =>
                    /\ Missing(get_user_selected_key(docs, email))
                    /\ Missing(get_user_api_key(docs, email))
              /\ (selected \in AllowedKeyTypes /\ ~Stored(selected)) =>
                    Missing(get_user_api_key(docs, email))

\* C23: the credential lookup (fetch_api_key, get_user_selected_key,
\* get_user_api_key) never returns a key for an unknown user or for a key
\* type that is not stored or not selected; it raises one error for a user
\* that is not found and another for a key that is not configured or not
\* selected; and a selected key type outside {gemini_api_key,
\* deepseek_v3_key} is rejected, whoever wrote it.
C23_LookupRefusesWithoutKey ==
    /\ \A email \in {"ann@x.co", "bob@x.co"} : LookupsRefuse(db, email)
    /\ \A selected \in {"openai_key", "", "GEMINI_API_KEY"} :
          LookupsRefuse("ann@x.co" :> (("current_selected_key" :> selected)
                                         @@ ("keys.gemini_api_key" :> encrypt_key("AIzaKey"))
                                         @@ (("keys." \o selected) :> encrypt_key("sk-or-key"))),
                        "ann@x.co")
    /\ served # <<>> /\ served.op \in {"fetch_api_key", "get_user_api_key"} =>
          (served.body.ok =>
              /\ served.user_email \in DOMAIN db
              /\ \E kt \in AllowedKeyTypes \cup {"api_key"} :
                    /\ ("keys." \o kt) \in DOMAIN db[served.user_email]
                    /\ db[served.user_email]["keys." \o kt] =
                          encrypt_key(served.body.value))

\* A user who selected a key type and never stored a key of it asked for
\* the key and got the error of a key that is not configured.
C23_Witness_SelectedButNotStored ==
    /\ pc = "keys"
    /\ served # <<>>
    /\ served.op = "get_user_api_key"
    /\ ~served.body.ok
    /\ served.body.error = "API key type not configured"
    /\ "keys.gemini_api_key" \in DOMAIN db[served.user_email]

\* C24: PUT /set-current-key with a key type outside the two allowed ones
\* is answered 400 and leaves the stored documents as they were, and in
\* every state every stored current_selected_key is one of the two.
C24_SelectionStaysAllowed ==
    /\ [](pc = "keys" =>
            \A email \in DOMAIN db :
                "current_selected_key" \in DOMAIN db[email] =>
                    db[email]["current_selected_key"] \in AllowedKeyTypes)
    /\ [][(pc = "keys" /\ served'.op = "set-current-key"
              /\ served'.key_type \notin AllowedKeyTypes) =>
            (served'.status = 400 /\ db' = db)]_vars

\* A key type outside the allowed ones was refused while a selection was
\* stored.
C24_Witness_RefusedWithSelectionStored ==
    /\ pc = "keys"
    /\ served # <<>>
    /\ served.op = "set-current-key"
    /\ served.status = 400
    /\ "ann@x.co" \in DOMAIN db
    /\ "current_selected_key" \in DOMAIN db["ann@x.co"]

\* C25: right after PUT /store-key succeeded for (user_email, key_type,
\* key_value), GET /check-keys lists key_type among available_keys and
\* fetch_api_key returns key_value; and GET /check-keys for a user without
\* a document answers with no available keys.
C25_StoredKeyListedAndFetched ==
    /\ (pc = "keys" /\ served # <<>> /\ served.op = "store-key" /\ served.status = 200) =>
          /\ served.key_type \in
                check_keys_presence(db, served.user_email).available_keys
          /\ fetch_api_key(db, served.user_email, served.key_type) =
                [ok |-> TRUE, value |-> served.key_value]
    /\ (pc = "keys" /\ served # <<>> /\ served.op = "check-keys"
           /\ served.user_email \notin DOMAIN db) =>
          (served.status = 200 /\ served.body.available_keys = {})

\* C28: a successful POST /store-auth or store_updated_credentials leaves
\* the user's encrypted API keys and current_selected_key as they were
\* and, when it brings no refresh token, the stored refresh_token too.
C28_StoreAuthKeepsKeysAndSelection ==
    [][(pc = "keys" /\ served'.op \in {"store-auth", "store_updated_credentials"}
          /\ served'.status = 200 /\ served'.user_email \in DOMAIN db) =>
        LET before == db[served'.user_email]
            after == db'[served'.user_email]
        IN  /\ \A f \in DOMAIN before :
                  (StartsWith(f, "keys.") \/ f = "current_selected_key") =>
                      (f \in DOMAIN after /\ after[f] = before[f])
            /\ (served'.refresh_token = PyNone /\ "refresh_token" \in DOMAIN before) =>
                  ("refresh_token" \in DOMAIN after
                     /\ after["refresh_token"] = before["refresh_token"])]_vars

\* C26: a run of POST /renew-expired-watches leaves every user whose watch
\* is enabled and expires within one day, who has an access token stored
\* and for whom Gmail answers the watch call, with a later stored expiry;
\* and renewed_watches is the number of users whose stored watch the run
\* replaced.
C26_ExpiringWatchesRenewed ==
    [][(pc = "cron" /\ served'.op = "renew-expired-watches") =>
        LET Watch(u) == users[u]["gmail-watch"]
            Expiring(u) == /\ "gmail-watch" \in DOMAIN users[u]
                           /\ Watch(u).enabled
                           /\ Watch(u).expiry > 0
                           /\ Watch(u).expiry <= now + 24 * 60 * 60
            HasToken(u) == u \in DOMAIN db /\ Truthy(Get(db[u], "oauth", ""))
        IN  /\ \A u \in DOMAIN users :
                  (Expiring(u) /\ HasToken(u) /\ served'.gmail[u].ok) =>
                      users'[u]["gmail-watch"].expiry > Watch(u).expiry
            /\ served'.renewed_watches =
                  Cardinality({u \in DOMAIN users : users'[u] # users[u]})]_vars

\* C27: the model call of a request to /invoke is made with the key that
\* request brought, whatever the other requests in flight brought.
C27_ModelCallUsesOwnKey ==
    pc = "pool" =>
        \A r \in DOMAIN race.threads :
            race.threads[r].used # PyNone =>
                race.threads[r].used = race.threads[r].api_key

\* C30: a processed notification stores a message only if its id was not
\* stored and its thread is the thread of a stored message, changes no
\* stored message, reports as emails_synced the number of messages it newly
\* stored, and writes lastSyncTimestamp exactly when that number is
\* positive.
C30_WebhookStoresNewThreadMessages ==
    [][(pc = "webhook" /\ served'.op = "gmail-webhook"
          /\ served'.body.status = "processed") =>
        LET email == served'.body.user_email
            before == Get(mailbox, email, <<>>)
            after == Get(mailbox', email, <<>>)
            newly == DOMAIN after \ DOMAIN before
        IN  /\ \A m \in DOMAIN before : m \in DOMAIN after /\ after[m] = before[m]
            /\ \A m \in newly : \E x \in DOMAIN before : before[x] = after[m]
            /\ served'.body.emails_synced = Cardinality(newly)
            /\ (users'[email]["lastSyncTimestamp"] # users[email]["lastSyncTimestamp"])
                  <=> Cardinality(newly) > 0]_vars

====
